---- MODULE Spec2Model ----
(***************************************************************************)
(* Model of two view components of polkadot-apps:                          *)
(*   - Members (packages/page-ranked/src/Members.tsx): the ranked-members  *)
(*     table adapter;                                                      *)
(*   - Call (react-components Call.tsx, src/unnamed/part_000): the         *)
(*     extrinsic/call display adapter with its extractState projection     *)
(*     and its useState/useEffect life cycle.                              *)
(*                                                                         *)
(* Conventions.  A JavaScript value that may be undefined or null is a     *)
(* sequence of length 0 or 1: Undefined / Null are <<>>, a present value x *)
(* is Some(x).  JavaScript strings produced by an encoding (toHex) are     *)
(* sequences of one-character strings, so that the encoding is computed.   *)
(***************************************************************************)
EXTENDS Integers, Sequences, FiniteSets, TLC

VARIABLES
  members,      \* Members: the `members` prop of the last render
  table,        \* Members: the <Table> element the last render returned
  input,        \* extractState: the argument tuple of the call
  result,       \* extractState: Null before the call, Some(Extracted) after
  mounted,      \* Call: whether the component instance exists
  props,        \* Call: the props of the last render
  extracted,    \* Call: the useState cell (Extracted)
  extractedFrom,\* Call: history, the dependencies the effect last ran with
  rendered,     \* Call: the element tree the last render returned
  pc            \* Call: "unmounted" | "effect" | "rerender" | "idle"

vars == <<members, table, input, result, mounted, props, extracted,
          extractedFrom, rendered, pc>>

membersVars == <<members, table>>
extractVars == <<input, result>>
callVars == <<mounted, props, extracted, extractedFrom, rendered, pc>>

----------------------------------------------------------------------------
(* JavaScript optional values and truthiness                               *)

Undefined == <<>>
Null == <<>>
Some(x) == <<x>>

\* Bounds of the model
MaxMembers == 3
MaxArgs == 2

RECURSIVE SeqsUpTo(_, _)
SeqsUpTo(S, n) ==
  IF n = 0 THEN {<<>>}
  ELSE LET shorter == SeqsUpTo(S, n - 1)
       IN shorter \cup {Append(s, x) : s \in {q \in shorter : Len(q) = n - 1}, x \in S}

----------------------------------------------------------------------------
(* Members.tsx                                                             *)

\* useTranslation().t of page-ranked: the localisation of a literal key
tMembers(key) == [i18n |-> "app-ranked", key |-> key]

\* headerRef.current: built once, on the first render
headerRef == << <<tMembers("members"), "start">>, <<tMembers("rank"), "number">> >>

\* <Member key={a.accountId} value={a} />
Member(a) == [component |-> "Member", key |-> a.accountId, value |-> a]

\* members.map(...): one element per record, in order
MapMembers(ms) == [i \in 1..Len(ms) |-> Member(ms[i])]

\* empty={members && t('No members found')}: `&&` yields its left operand
\* when that is falsy (undefined), else its right operand; [] is truthy.
\* (variant: the message only for a non-empty sequence)
EmptyPropMutNonEmpty(m) ==
  IF m = Undefined \/ m[1] = <<>> THEN Undefined ELSE Some(tMembers("No members found"))
EmptyProp(m) == IF m = Undefined THEN Undefined ELSE Some(tMembers("No members found"))

\* children: {members && members.map(...)}
\* (variant: rows in reverse order)
ChildrenMutReverse(m) ==
  IF m = Undefined THEN Undefined
  ELSE Some([i \in 1..Len(m[1]) |-> Member(m[1][Len(m[1]) + 1 - i])])
Children(m) == IF m = Undefined THEN Undefined ELSE Some(MapMembers(m[1]))

\* The element returned by Members({ members })
Members(m) ==
  [component |-> "Table",
   empty     |-> EmptyProp(m),
   header    |-> headerRef,
   children  |-> Children(m)]

\* The rows a Table element holds: undefined children render nothing
Rows(tbl) == IF tbl.children = Undefined THEN <<>> ELSE tbl.children[1]

AccountIds == {"5Alice", "5Bob", "5Carol"}
Ranks == {0, 1}
MemberRecords == [accountId : AccountIds, rank : Ranks]
MembersProps == {Undefined} \cup {Some(s) : s \in SeqsUpTo(MemberRecords, MaxMembers)}

MembersRender(m) ==
  /\ members' = m
  /\ table' = Members(m)
  /\ UNCHANGED <<extractVars, callVars>>

----------------------------------------------------------------------------
(* Call.tsx: codec objects handed in by the decoding layer                  *)

\* A Text codec and its toString()
Text(s) == [codec |-> "Text", str |-> s]
toString(txt) == txt.str

\* u8a -> hex string: "0x" followed by two lower-case digits per byte
HexDigits == <<"0", "1", "2", "3", "4", "5", "6", "7",
               "8", "9", "a", "b", "c", "d", "e", "f">>
RECURSIVE HexOfBytes(_)
HexOfBytes(bytes) ==
  IF bytes = <<>> THEN <<>>
  ELSE <<HexDigits[(bytes[1] \div 16) + 1], HexDigits[(bytes[1] % 16) + 1]>>
         \o HexOfBytes(Tail(bytes))
toHex(bytes) == <<"0", "x">> \o HexOfBytes(bytes)

\* getTypeDef(type): the structural definition of a type string, for the
\* type strings the model's metadata uses
getTypeDef(typeStr) ==
  CASE typeStr = "Compact<u128>" ->
         [info |-> "Compact", type |-> typeStr, sub |-> Some("u128")]
    [] typeStr = "Vec<u8>" ->
         [info |-> "Vec", type |-> typeStr, sub |-> Some("u8")]
    [] OTHER ->
         [info |-> "Plain", type |-> typeStr, sub |-> Undefined]

----------------------------------------------------------------------------
(* Call.tsx: constants and extractState                                    *)

BALANCE_CALLS == <<
  "balances.forceTransfer", "balances.forceUnreserve", "balances.setBalance",
  "balances.transfer", "balances.transferKeepAlive",
  "bounties.proposeBounty", "bounties.proposeCurator",
  "convictionVoting.delegate",
  "crowdloan.contribute", "crowdloan.create", "crowdloan.edit",
  "democracy.delegate", "democracy.propose",
  "nominationPools.bondExtra", "nominationPools.join", "nominationPools.unbond",
  "staking.bond", "staking.bondExtra", "staking.rebond", "staking.unbond",
  "treasury.proposeSpend", "treasury.spend",
  "vesting.forceVestedTransfer", "vesting.vestedTransfer" >>

\* Array.prototype.includes: strict equality against some element
includes(arr, x) == \E i \in 1..Len(arr) : arr[i] = x

BALANCE_OVERRIDE == [ty \in {"Compact<u128>"} |-> "BalanceParam"]

\* !!(value as IExtrinsic).signature: an object is truthy, undefined is not
isExtrinsic(value) == value.signature # Undefined

\* (value as any)._raw?.signature?.multiSignature
getRawSignature(value) ==
  IF value._raw = Undefined THEN Undefined
  ELSE IF value._raw[1].signature = Undefined THEN Undefined
  ELSE value._raw[1].signature[1].multiSignature

\* raw instanceof Enum
\* (variant: any present envelope taken for an Enum)
instanceofEnumMutAnyObject(raw) == raw # Undefined
instanceofEnum(raw) == raw # Undefined /\ raw[1].class = "Enum"

\* callName && BALANCE_CALLS.includes(callName) ? BALANCE_OVERRIDE : undefined
\* (variant: no allow-list test)
extractOverridesMutAnyName(callName) ==
  IF callName # Undefined /\ callName[1] # "" THEN Some(BALANCE_OVERRIDE) ELSE Undefined
extractOverrides(callName) ==
  IF callName # Undefined /\ callName[1] # "" /\ includes(BALANCE_CALLS, callName[1])
  THEN Some(BALANCE_OVERRIDE)
  ELSE Undefined

\* value.meta.args.map(({ name, type }) => ({ name, type: getTypeDef(type) }))
\* (variant: names taken from the end of the list)
extractParamsMutSwap(value) ==
  [i \in 1..Len(value.meta.args) |->
     [name |-> toString(value.meta.args[Len(value.meta.args) + 1 - i].name),
      type |-> getTypeDef(toString(value.meta.args[i].type))]]
extractParams(value) ==
  [i \in 1..Len(value.meta.args) |->
     [name |-> toString(value.meta.args[i].name),
      type |-> getTypeDef(toString(value.meta.args[i].type))]]

\* value.args.map((value) => ({ isValid: true, value }))
extractValues(value) ==
  [i \in 1..Len(value.args) |-> [isValid |-> TRUE, value |-> value.args[i]]]

\* withHash ? value.hash.toHex() : null
\* (variant: withHash ignored)
extractHashMutAlways(value, withHash) == Some(toHex(value.hash))
extractHash(value, withHash) ==
  IF withHash = Some(TRUE) THEN Some(toHex(value.hash)) ELSE Null

\* if (withSignature && isExtrinsic(value) && value.isSigned)
\* (variant: isSigned not tested)
takesSignatureMutNoIsSigned(value, withSignature) ==
  withSignature = Some(TRUE) /\ isExtrinsic(value)
takesSignature(value, withSignature) ==
  withSignature = Some(TRUE) /\ isExtrinsic(value) /\ value.isSigned

extractState(value, withHash, withSignature, callName) ==
  LET signed == takesSignature(value, withSignature)
      raw == getRawSignature(value)
  IN [hash          |-> extractHash(value, withHash),
      overrides     |-> extractOverrides(callName),
      params        |-> extractParams(value),
      signature     |-> IF signed THEN Some(toHex(value.signature[1])) ELSE Null,
      signatureType |-> IF signed /\ instanceofEnum(raw) THEN Some(raw[1].type) ELSE Null,
      values        |-> extractValues(value)]

----------------------------------------------------------------------------
(* Inputs of extractState                                                  *)

ArgDecls == {[name |-> Text("dest"), type |-> Text("MultiAddress")],
             [name |-> Text("value"), type |-> Text("Compact<u128>")]}
ArgValues == {7, 42}
Hashes == {<<0, 171>>, <<255, 16>>}
SignatureBytes == {<<1, 35>>, <<222, 173>>}
Registries == {"registryA"}

EnumSr25519 == [class |-> "Enum", type |-> "Sr25519"]
EnumEd25519 == [class |-> "Enum", type |-> "Ed25519"]
RawBytes == [class |-> "Raw", type |-> "Raw"]

\* The shapes of value._raw an extrinsic can carry
RawShapes ==
  {Undefined,
   Some([signature |-> Undefined]),
   Some([signature |-> Some([multiSignature |-> Undefined])]),
   Some([signature |-> Some([multiSignature |-> Some(RawBytes)])]),
   Some([signature |-> Some([multiSignature |-> Some(EnumSr25519)])]),
   Some([signature |-> Some([multiSignature |-> Some(EnumEd25519)])])}

\* The signature side of a value: an IMethod (no signature accessor), an
\* unsigned IExtrinsic (an empty signature object) or a signed IExtrinsic
SignatureSides ==
  {[signature |-> Undefined, isSigned |-> FALSE, _raw |-> Undefined]}
  \cup {[signature |-> Some(<<0, 0>>), isSigned |-> FALSE, _raw |-> r] :
          r \in {Undefined, Some([signature |-> Some([multiSignature |-> Some(EnumSr25519)])])}}
  \cup [signature : {Some(b) : b \in SignatureBytes}, isSigned : {TRUE}, _raw : RawShapes]

\* meta.args and args of one call: the same number of declarations and values
MetaArgs(n) == {s \in SeqsUpTo(ArgDecls, n) : Len(s) = n}
ArgLists(n) == {s \in SeqsUpTo(ArgValues, n) : Len(s) = n}

mkValue(id, reg, decls, args, h, side) ==
  [id |-> id, registry |-> reg, meta |-> [args |-> decls], args |-> args, hash |-> h,
   signature |-> side.signature, isSigned |-> side.isSigned, _raw |-> side._raw]

ExtractValueSet ==
  UNION {{mkValue(1, reg, d, a, h, side) :
            reg \in Registries, d \in MetaArgs(n), a \in ArgLists(n),
            h \in Hashes, side \in SignatureSides} : n \in 0..MaxArgs}

OptBool == {Undefined, Some(TRUE), Some(FALSE)}
CallNames == {Undefined, Some(""), Some("balances.transfer"), Some("staking.bond"),
              Some("system.remark"), Some("Balances.transfer")}

ExtractInputs ==
  [value : ExtractValueSet, withHash : OptBool, withSignature : OptBool,
   callName : CallNames]

\* One call of extractState on the chosen arguments
ExtractCall ==
  /\ result = Null
  /\ result' = Some(extractState(input.value, input.withHash, input.withSignature,
                                 input.callName))
  /\ UNCHANGED <<input, membersVars, callVars>>

----------------------------------------------------------------------------
(* Call.tsx: the Call component                                            *)

\* useTranslation().t of react-components, with its interpolation values
t(key, replace) == [i18n |-> "react-components", key |-> key, replace |-> replace]

\* useState<Extracted>({ hash: null, params: [], signature: null, ... })
InitialExtracted ==
  [hash |-> Null, overrides |-> Undefined, params |-> <<>>, signature |-> Null,
   signatureType |-> Null, values |-> <<>>]

\* The dependency array of the effect: [callName, value, withHash, withSignature]
\* (variant: tip listed as a dependency too)
DepsMutWithTip(p) == <<p.callName, p.value, p.withHash, p.withSignature, p.tip>>
Deps(p) == <<p.callName, p.value, p.withHash, p.withSignature>>

\* React's areHookInputsEqual: Object.is on each position
areHookInputsEqual(nextDeps, prevDeps) ==
  \A i \in 1..Len(prevDeps) : nextDeps[i] = prevDeps[i]

\* <FormatBalance value={tip} />
FormatBalance(value) == [component |-> "FormatBalance", value |-> value]

\* <Static className label value withCopy />
Static(className, label, value, withCopy) ==
  [component |-> "Static", className |-> className, label |-> label,
   value |-> value, withCopy |-> withCopy]

\* a || b on an optional node
OrElse(node, fallback) == IF node # Undefined THEN node[1] ELSE fallback

\* {signature && (<Static className='hash' label={labelSignature || t(...)} ... />)}
SignatureRow(p, ex) ==
  IF ex.signature # Null /\ ex.signature[1] # <<>>
  THEN Some(Static("hash",
                   OrElse(p.labelSignature,
                          t("signature {{type}}",
                            IF ex.signatureType # Null /\ ex.signatureType[1] # ""
                            THEN <<"(", ex.signatureType[1], ")">>
                            ELSE <<>>)),
                   ex.signature[1], TRUE))
  ELSE Undefined

\* {hash && (<Static className='hash' label={labelHash || t('extrinsic hash')} ... />)}
HashRow(p, ex) ==
  IF ex.hash # Null /\ ex.hash[1] # <<>>
  THEN Some(Static("hash", OrElse(p.labelHash, t("extrinsic hash", <<>>)), ex.hash[1], TRUE))
  ELSE Undefined

\* {mortality && (<Static className='mortality' label={t('lifetime')} value={mortality} />)}
MortalityRow(p) ==
  IF p.mortality # Undefined /\ p.mortality[1] # ""
  THEN Some(Static("mortality", t("lifetime", <<>>), p.mortality[1], FALSE))
  ELSE Undefined

\* {tip?.gtn(0) && (<Static className='tip' ... value={<FormatBalance value={tip} />} />)}
\* (variant: gten(0) for gtn(0))
TipRowMutGte(p) ==
  IF p.tip # Undefined /\ p.tip[1] >= 0
  THEN Some(Static("tip", t("tip", <<>>), FormatBalance(p.tip[1]), FALSE))
  ELSE Undefined
TipRow(p) ==
  IF p.tip # Undefined /\ p.tip[1] > 0
  THEN Some(Static("tip", t("tip", <<>>), FormatBalance(p.tip[1]), FALSE))
  ELSE Undefined

\* <Params isDisabled overrides params registry={value.registry} values />
ParamsElement(p, ex) ==
  [component |-> "Params", isDisabled |-> TRUE, overrides |-> ex.overrides,
   params |-> ex.params, registry |-> p.value.registry, values |-> ex.values]

\* The element tree one render of Call returns, from the props of that
\* render and the state cell as it is at that render
RenderCall(p, ex) ==
  [params    |-> ParamsElement(p, ex),
   signature |-> SignatureRow(p, ex),
   hash      |-> HashRow(p, ex),
   mortality |-> MortalityRow(p),
   tip       |-> TipRow(p)]

\* The value objects the parent hands to Call
MethodSide == [signature |-> Undefined, isSigned |-> FALSE, _raw |-> Undefined]
SignedSide ==
  [signature |-> Some(<<1, 35>>), isSigned |-> TRUE,
   _raw |-> Some([signature |-> Some([multiSignature |-> Some(EnumSr25519)])])]
TransferDecls == <<[name |-> Text("dest"), type |-> Text("MultiAddress")],
                   [name |-> Text("value"), type |-> Text("Compact<u128>")]>>
CallValues ==
  {mkValue(1, "registryA", TransferDecls, <<7, 42>>, <<0, 171>>, MethodSide),
   mkValue(2, "registryB", TransferDecls, <<7, 42>>, <<255, 16>>, SignedSide),
   mkValue(3, "registryB", TransferDecls, <<7, 42>>, <<255, 16>>, SignedSide)}

CallProps ==
  [callName       : {Undefined, Some("balances.transfer")},
   labelHash      : {Undefined, Some("call hash")},
   labelSignature : {Undefined},
   mortality      : {Undefined, Some("mortal for 64 blocks")},
   tip            : {Undefined, Some(-1), Some(0), Some(5)},
   value          : CallValues,
   withHash       : {Undefined, Some(TRUE)},
   withSignature  : {Some(FALSE), Some(TRUE)}]

NoProps ==
  [callName |-> Undefined, labelHash |-> Undefined, labelSignature |-> Undefined,
   mortality |-> Undefined, tip |-> Undefined,
   value |-> mkValue(0, "", <<>>, <<>>, <<>>, MethodSide),
   withHash |-> Undefined, withSignature |-> Undefined]

\* First render: the state cell holds its initial value, the effect is
\* scheduled unconditionally
\* (variant: the state cell initialised with the extraction)
MountMutLazyInit(p) ==
  /\ ~mounted
  /\ mounted' = TRUE
  /\ props' = p
  /\ extracted' = extractState(p.value, p.withHash, p.withSignature, p.callName)
  /\ extractedFrom' = Undefined
  /\ rendered' = Some(RenderCall(p, extracted'))
  /\ pc' = "effect"
  /\ UNCHANGED <<membersVars, extractVars>>
Mount(p) ==
  /\ ~mounted
  /\ mounted' = TRUE
  /\ props' = p
  /\ extracted' = InitialExtracted
  /\ extractedFrom' = Undefined
  /\ rendered' = Some(RenderCall(p, InitialExtracted))
  /\ pc' = "effect"
  /\ UNCHANGED <<membersVars, extractVars>>

\* The passive effect: setExtracted(extractState(value, withHash, withSignature,
\* callName)) with the props of the render that scheduled it; the new state
\* object schedules a render
RunEffect ==
  /\ mounted /\ pc = "effect"
  /\ extracted' = extractState(props.value, props.withHash, props.withSignature,
                               props.callName)
  /\ extractedFrom' = Some(<<props.callName, props.value, props.withHash,
                             props.withSignature>>)
  /\ pc' = "rerender"
  /\ UNCHANGED <<mounted, props, rendered, membersVars, extractVars>>

\* The render a state update asks for: same props, hence equal dependencies
Rerender ==
  /\ mounted /\ pc = "rerender"
  /\ rendered' = Some(RenderCall(props, extracted))
  /\ pc' = "idle"
  /\ UNCHANGED <<mounted, props, extracted, extractedFrom, membersVars, extractVars>>

\* A render with new props from the parent (React.memo skips equal props).
\* React flushes a pending passive effect before it renders again, so this
\* waits for RunEffect; a pending state update is folded into this render.
Update(p) ==
  /\ mounted /\ pc \in {"idle", "rerender"}
  /\ p # props
  /\ props' = p
  /\ rendered' = Some(RenderCall(p, extracted))
  /\ pc' = IF areHookInputsEqual(Deps(p), Deps(props)) THEN "idle" ELSE "effect"
  /\ UNCHANGED <<mounted, extracted, extractedFrom, membersVars, extractVars>>

\* Unmount: the state cell and the pending effect go with the instance
Unmount ==
  /\ mounted
  /\ mounted' = FALSE
  /\ props' = NoProps
  /\ extracted' = InitialExtracted
  /\ extractedFrom' = Undefined
  /\ rendered' = Undefined
  /\ pc' = "unmounted"
  /\ UNCHANGED <<membersVars, extractVars>>

----------------------------------------------------------------------------
(* Specifications                                                          *)

MembersIdle == members = Undefined /\ table = Members(Undefined)
ExtractIdle ==
  /\ input = [value |-> mkValue(0, "", <<>>, <<>>, <<>>, MethodSide),
              withHash |-> Undefined, withSignature |-> Undefined, callName |-> Undefined]
  /\ result = Null
CallIdle ==
  /\ mounted = FALSE
  /\ props = NoProps
  /\ extracted = InitialExtracted
  /\ extractedFrom = Undefined
  /\ rendered = Undefined
  /\ pc = "unmounted"

\* The Members view: a first render before the members are known, then
\* re-renders with any members prop
InitMembers == MembersIdle /\ ExtractIdle /\ CallIdle
NextMembers == \E m \in MembersProps : MembersRender(m)
SpecMembers == InitMembers /\ [][NextMembers]_vars

\* extractState as a function of its arguments
InitExtract ==
  /\ input \in ExtractInputs
  /\ result = Null
  /\ MembersIdle /\ CallIdle
NextExtract == ExtractCall
SpecExtract == InitExtract /\ [][NextExtract]_vars

\* The Call view's life cycle
Init == MembersIdle /\ ExtractIdle /\ CallIdle
Next ==
  \/ \E p \in CallProps : Mount(p)
  \/ RunEffect
  \/ Rerender
  \/ \E p \in CallProps : Update(p)
  \/ Unmount
Spec == Init /\ [][Next]_vars

----------------------------------------------------------------------------
(* Claims about Members (checked under SpecMembers)                        *)

EmptyMessage == Some(tMembers("No members found"))

\* C1 (as stated): whenever the member sequence is absent (undefined) or
\* empty, the table is given the localized message 'No members found' as
\* its empty-state and the view renders zero rows.
C1_AbsentOrEmptyGivesMessage ==
  (members = Undefined \/ members = Some(<<>>)) =>
    /\ table.empty = EmptyMessage
    /\ Len(Rows(table)) = 0

\* C1 (amended): a present, empty member sequence gives the table the
\* localized message 'No members found' and zero rows; an absent sequence
\* gives zero rows and no empty-state message (the empty prop is undefined).
C1_EmptyGivesMessageAbsentGivesNone ==
  /\ members = Some(<<>>) => table.empty = EmptyMessage /\ Len(Rows(table)) = 0
  /\ members = Undefined => table.empty = Undefined /\ Len(Rows(table)) = 0

C1_Witness ==
  /\ members = Some(<<>>)
  /\ table.empty = EmptyMessage
  /\ table.children = Some(<<>>)

Distinct(ms) == \A i, j \in 1..Len(ms) : i # j => ms[i].accountId # ms[j].accountId

\* C8: N member records with distinct account identifiers render exactly N
\* rows, the i-th row keyed by the i-th record's account identifier and
\* carrying the i-th record.
C8_OneRowPerMemberInOrder ==
  (members # Undefined /\ Distinct(members[1])) =>
    /\ Len(Rows(table)) = Len(members[1])
    /\ \A i \in 1..Len(members[1]) :
         /\ Rows(table)[i].key = members[1][i].accountId
         /\ Rows(table)[i].value = members[1][i]

C8_Witness ==
  /\ members # Undefined
  /\ Len(members[1]) = 3
  /\ Distinct(members[1])
  /\ Len(Rows(table)) = 3
  /\ Rows(table)[1].key # Rows(table)[3].key

----------------------------------------------------------------------------
(* Claims about extractState (checked under SpecExtract)                   *)

Called == result # Null
SignedExtrinsic(v) == v.signature # Undefined /\ v.isSigned
\* The raw multi-signature envelope of a value, where it has one
Envelope(v) ==
  IF v._raw # Undefined /\ v._raw[1].signature # Undefined
  THEN v._raw[1].signature[1].multiSignature
  ELSE Undefined
TaggedVariant(env) == env # Undefined /\ env[1].class = "Enum"
DeclaresCompactU128(v) ==
  \E i \in 1..Len(v.meta.args) : v.meta.args[i].type.str = "Compact<u128>"
InAllowList(cn) == cn # Undefined /\ \E i \in 1..Len(BALANCE_CALLS) : BALANCE_CALLS[i] = cn[1]

\* C2: for a signed extrinsic and withSignature = true, signature is the hex
\* encoding of the signature value, signatureType is the envelope's tag when
\* the envelope is a tagged variant and null when it is missing or not one.
C2_SignedSignatureAndType ==
  (Called /\ input.withSignature = Some(TRUE) /\ SignedExtrinsic(input.value)) =>
    /\ result[1].signature = Some(toHex(input.value.signature[1]))
    /\ TaggedVariant(Envelope(input.value)) =>
         result[1].signatureType = Some(Envelope(input.value)[1].type)
    /\ ~TaggedVariant(Envelope(input.value)) => result[1].signatureType = Null

C2_Witness ==
  /\ Called /\ input.withSignature = Some(TRUE) /\ SignedExtrinsic(input.value)
  /\ Envelope(input.value) # Undefined
  /\ ~TaggedVariant(Envelope(input.value))
  /\ result[1].signature = Some(<<"0", "x", "d", "e", "a", "d">>)
  /\ result[1].signatureType = Null

\* C3: for an unsigned value, or when withSignature is false or absent,
\* signature and signatureType are both null, also when the value has a
\* signature accessor; signature is non-null only when withSignature is
\* true, the value has a signature accessor and isSigned is true.
C3_UnsignedOrNotAskedGivesNull ==
  Called =>
    /\ (~input.value.isSigned \/ input.withSignature # Some(TRUE)) =>
         result[1].signature = Null /\ result[1].signatureType = Null
    /\ result[1].signature # Null =>
         /\ input.withSignature = Some(TRUE)
         /\ input.value.signature # Undefined
         /\ input.value.isSigned

C3_Witness ==
  /\ Called /\ input.withSignature = Some(TRUE)
  /\ input.value.signature # Undefined /\ ~input.value.isSigned
  /\ input.value._raw # Undefined
  /\ result[1].signature = Null /\ result[1].signatureType = Null

\* C4: a call name in BALANCE_CALLS, on a call that declares a
\* Compact<u128> argument, gives an override map holding an entry for
\* 'Compact<u128>'; a call name that is not in the list, or is absent or
\* empty, gives undefined overrides whatever the argument types are.
C4_OverridesFollowAllowList ==
  Called =>
    /\ (InAllowList(input.callName) /\ DeclaresCompactU128(input.value)) =>
         /\ result[1].overrides # Undefined
         /\ "Compact<u128>" \in DOMAIN result[1].overrides[1]
    /\ ~InAllowList(input.callName) => result[1].overrides = Undefined

C4_Witness ==
  /\ Called
  /\ input.callName = Some("staking.bond") /\ DeclaresCompactU128(input.value)
  /\ result[1].overrides # Undefined
  /\ result[1].overrides[1]["Compact<u128>"] = "BalanceParam"

\* C5: hash is null when withHash is false or absent and the hex encoding of
\* the value's content hash when withHash is true, whatever withSignature,
\* callName and the signature side of the value are.
C5_HashFollowsWithHash ==
  Called =>
    /\ input.withHash # Some(TRUE) => result[1].hash = Null
    /\ input.withHash = Some(TRUE) => result[1].hash = Some(toHex(input.value.hash))

C5_Witness ==
  /\ Called /\ input.withHash = Some(TRUE) /\ input.withSignature = Some(FALSE)
  /\ result[1].hash = Some(<<"0", "x", "f", "f", "1", "0">>)

\* C6: params holds one descriptor per metadata argument, in metadata order,
\* the i-th with the i-th argument's name and the type definition of its
\* type; values holds one entry per argument value, in order, the i-th
\* carrying the i-th argument value and isValid = true.
C6_ParamsAndValuesPositional ==
  Called =>
    LET v == input.value
        r == result[1]
    IN /\ Len(r.params) = Len(v.meta.args)
       /\ \A i \in 1..Len(v.meta.args) :
            /\ r.params[i].name = v.meta.args[i].name.str
            /\ r.params[i].type = getTypeDef(v.meta.args[i].type.str)
       /\ Len(r.values) = Len(v.args)
       /\ \A i \in 1..Len(v.args) :
            r.values[i] = [isValid |-> TRUE, value |-> v.args[i]]

C6_Witness ==
  /\ Called
  /\ Len(input.value.meta.args) = 2
  /\ input.value.meta.args[1].name.str = "value"
  /\ input.value.meta.args[2].name.str = "dest"
  /\ input.value.args = <<42, 7>>
  /\ result[1].params[1].type.info = "Compact"
  /\ result[1].values[2] = [isValid |-> TRUE, value |-> 7]

----------------------------------------------------------------------------
(* Claims about the Call view (checked under Spec)                         *)

SameDependencies(p, q) ==
  /\ p.callName = q.callName
  /\ p.value = q.value
  /\ p.withHash = q.withHash
  /\ p.withSignature = q.withSignature

ExtractedOf(p) == extractState(p.value, p.withHash, p.withSignature, p.callName)

\* C7: over any sequence of prop changes, a change of callName, value,
\* withHash or withSignature schedules the effect, and the effect replaces
\* the derived structure by the extraction from the props then current; a
\* change of cosmetic props only leaves the derived structure as it is and
\* schedules nothing; mortality and tip are rendered from the latest props
\* in every render.
C7_RecomputedOnDependencyChangeOnly ==
  /\ [][(mounted /\ mounted') =>
          /\ ~SameDependencies(props, props') => pc' = "effect"
          /\ (SameDependencies(props, props') /\ pc # "effect") =>
               extracted' = extracted /\ pc' # "effect"
          /\ (pc = "effect" /\ pc' # "effect") =>
               extracted' = ExtractedOf(props')]_vars
  /\ [](mounted =>
          /\ rendered[1].mortality = MortalityRow(props)
          /\ rendered[1].tip = TipRow(props))

C7_Witness ==
  /\ mounted /\ pc = "rerender"
  /\ extractedFrom = Some(<<props.callName, props.value, props.withHash, props.withSignature>>)
  /\ extracted = ExtractedOf(props)
  /\ rendered[1].hash = Undefined /\ extracted.hash # Null
  /\ rendered[1].params.params # <<>>
  /\ rendered[1].mortality # Undefined

\* C9: the tip row is rendered exactly when a tip is supplied and is
\* strictly greater than zero, and a rendered tip row shows the latest tip
\* prop through the balance formatter.
C9_TipRowIffPositive ==
  mounted =>
    /\ rendered[1].tip # Undefined <=> (props.tip # Undefined /\ props.tip[1] > 0)
    /\ rendered[1].tip # Undefined =>
         /\ rendered[1].tip[1].className = "tip"
         /\ rendered[1].tip[1].value = [component |-> "FormatBalance", value |-> props.tip[1]]

C9_Witness ==
  /\ mounted /\ pc = "idle"
  /\ props.tip = Some(5)
  /\ rendered[1].tip # Undefined
  /\ rendered[1].tip[1].value.value = 5

\* The derived structure a render shows: what it hands to Params, and the
\* signature and hash rows
Shown(view) ==
  [overrides |-> view.params.overrides, params |-> view.params.params,
   values |-> view.params.values, signature |-> view.signature, hash |-> view.hash]

\* The extraction a render made before the effect has run works from: that
\* of the previous dependencies, or the initial state on first mount
PreviousExtracted ==
  IF extractedFrom = Undefined
  THEN [hash |-> Null, overrides |-> Undefined, params |-> <<>>, signature |-> Null,
        signatureType |-> Null, values |-> <<>>]
  ELSE extractState(extractedFrom[1][2], extractedFrom[1][3], extractedFrom[1][4],
                    extractedFrom[1][1])

\* C10: a render made after a dependency change and before the effect has
\* run shows the derived structure extracted from the previous props (on
\* first mount: the empty initial structure), with registry, mortality and
\* tip of the latest props; once the effect has run and no dependency has
\* changed since, the derived structure is extractState of the latest props,
\* and the render that follows shows it.
C10_StaleUntilEffectThenCurrent ==
  mounted =>
    /\ pc = "effect" =>
         /\ extracted = PreviousExtracted
         /\ Shown(rendered[1]) = Shown(RenderCall(props, PreviousExtracted))
    /\ rendered[1].params.registry = props.value.registry
    /\ rendered[1].mortality = MortalityRow(props)
    /\ rendered[1].tip = TipRow(props)
    /\ pc \in {"rerender", "idle"} => extracted = ExtractedOf(props)
    /\ pc = "idle" => Shown(rendered[1]) = Shown(RenderCall(props, ExtractedOf(props)))

C10_Witness ==
  /\ mounted /\ pc = "effect"
  /\ extractedFrom # Undefined
  /\ extractedFrom[1][2].id = 1 /\ props.value.id = 2
  /\ rendered[1].params.registry = "registryB"
  /\ props.withSignature = Some(TRUE) /\ rendered[1].signature = Undefined
  /\ props.withHash = Some(TRUE) /\ extractedFrom[1][3] = Some(TRUE)
  /\ rendered[1].hash # Undefined
  /\ rendered[1].hash[1].value = <<"0", "x", "0", "0", "a", "b">>

----------------------------------------------------------------------------
====
